---- MODULE Spec2Model ----
(***************************************************************************)
(* StakTrakr spot-price archive: the yearly seed archive, the hourly tree  *)
(* and the 15-minute tree, with the merge engine of update-seed-data.py    *)
(* and the poll cycle of poller.py.                                        *)
(*                                                                         *)
(* A timestamp "YYYY-MM-DD HH:MM:SS" is the tuple <<year, day, hour,       *)
(* minute>>, day being the day of the year (the seconds are always 00):    *)
(* every field of the string is zero-padded to a fixed width, so Python's  *)
(* string comparison of two timestamps is the lexicographic comparison of  *)
(* the tuples, ts[:4] is the first field and ts[:10] the first two.  A     *)
(* date is <<year, day>>.  A metal name is a string; its comparison is     *)
(* computed on the code points of its characters.  A spot is a price in    *)
(* cents, a rate is given in millionths of an ounce per dollar.            *)
(***************************************************************************)
EXTENDS Integers, Sequences, FiniteSets, TLC

VARIABLES
    yearFiles,    \* spot-history-{year}.json: year -> sequence of records
    hourlyFiles,  \* hourly/YYYY/MM/DD/HH.json: <<date, hour>> -> records
    min15Files,   \* 15min/YYYY/MM/DD/HHMM.json: <<date, hour, minute>> -> records
    now,          \* the wall clock read by datetime.utcnow()
    pc,           \* "idle", or "returned" while the caller holds a result
    call,         \* the call that returned: operation, arguments, result
    pre,          \* the files as they were when that call was entered
    nStoreCalls,  \* calls into the hourly and 15-minute layers so far
    proc          \* the entry point that is running: its position and locals

vars == <<yearFiles, hourlyFiles, min15Files, now, pc, call, pre, nStoreCalls,
         proc>>

-----------------------------------------------------------------------------
(* Bounds of the model *)

MaxLen == 2         \* longest list of new records handed to one merge
MaxStoreCalls == 3  \* polls, backfills and cell writes explored in one run

-----------------------------------------------------------------------------
(* Records *)

PROVIDER == "StakTrakr"

\* The hour of a seed timestamp, "{date_str} 12:00:00".
SEED_HOUR == 12

Rec(ts, metal, spot, source) ==
    [spot |-> spot, metal |-> metal, source |-> source,
     provider |-> PROVIDER, timestamp |-> ts]

\* entry["timestamp"][:4]
YearOf(ts) == ts[1]

\* e["timestamp"][:10]
DateOf(ts) == <<ts[1], ts[2]>>

\* (e["timestamp"], e["metal"])
KeyOf(e) == <<e.timestamp, e.metal>>

\* Code points of the metal names (Python compares str by code point).
MetalChars(m) ==
    CASE m = "Gold"      -> <<71, 111, 108, 100>>
      [] m = "Silver"    -> <<83, 105, 108, 118, 101, 114>>
      [] m = "Platinum"  -> <<80, 108, 97, 116, 105, 110, 117, 109>>
      [] m = "Palladium" -> <<80, 97, 108, 108, 97, 100, 105, 117, 109>>

\* Lexicographic a < b on sequences of integers.
RECURSIVE SeqLess(_, _)
SeqLess(a, b) ==
    IF b = <<>> THEN FALSE
    ELSE IF a = <<>> THEN TRUE
    ELSE IF Head(a) # Head(b) THEN Head(a) < Head(b)
    ELSE SeqLess(Tail(a), Tail(b))

Metals == {"Gold", "Silver", "Platinum", "Palladium"}

\* The place of each metal name in Python's str order.
MetalRank ==
    [m \in Metals |->
        Cardinality({x \in Metals : SeqLess(MetalChars(x), MetalChars(m))})]

\* a < b on timestamps: the string order of "YYYY-MM-DD HH:MM:SS".
TsLess(a, b) ==
    \/ a[1] < b[1]
    \/ a[1] = b[1] /\ a[2] < b[2]
    \/ a[1] = b[1] /\ a[2] = b[2] /\ a[3] < b[3]
    \/ a[1] = b[1] /\ a[2] = b[2] /\ a[3] = b[3] /\ a[4] < b[4]

\* Tuple comparison of the sort key (timestamp, metal): a < b.
KeyLess(a, b) ==
    \/ TsLess(a.timestamp, b.timestamp)
    \/ /\ a.timestamp = b.timestamp
       /\ MetalRank[a.metal] < MetalRank[b.metal]

-----------------------------------------------------------------------------
(* Year-file I/O *)

\* load_year_file: the file's list, empty if the file is missing.
load_year_file(files, year) ==
    IF year \in DOMAIN files THEN files[year] ELSE <<>>

\* save_year_file: the file is (created and) fully replaced.
save_year_file(files, year, entries) ==
    (year :> entries) @@ files

\* Mutant of save_hourly_file: the overwrite flag is ignored.
save_hourly_file_always(files, entries, date, hour, overwrite) ==
    LET path == <<date[1], date[2], hour>>
    IN [files |-> (path :> entries) @@ files,
        written |-> TRUE]

\* save_hourly_file: hourly/YYYY/MM/DD/HH.json is left alone if it exists and
\* overwrite is false, written otherwise; the returned flag says which.
save_hourly_file(files, entries, date, hour, overwrite) ==
    LET path == <<date[1], date[2], hour>>
    IN IF path \in DOMAIN files /\ ~overwrite
       THEN [files |-> files, written |-> FALSE]
       ELSE [files |-> (path :> entries) @@ files,
             written |-> TRUE]

\* Mutant of save_15min_file: an existing cell is written again.
save_15min_file_rewrites(files, entries, date, hour, minute) ==
    LET path == <<date[1], date[2], hour, minute>>
    IN [files |-> (path :> entries) @@ files,
        written |-> TRUE]

\* save_15min_file: 15min/YYYY/MM/DD/HHMM.json is written only if it does not
\* exist (hour and minute are zero-padded to two digits each).
save_15min_file(files, entries, date, hour, minute) ==
    LET path == <<date[1], date[2], hour, minute>>
    IN IF path \in DOMAIN files
       THEN [files |-> files, written |-> FALSE]
       ELSE [files |-> (path :> entries) @@ files,
             written |-> TRUE]

-----------------------------------------------------------------------------
(* Data transformation *)

SYMBOLS == <<"XAU", "XAG", "XPT", "XPD">>

SYMBOL_TO_METAL(symbol) ==
    CASE symbol = "XAU" -> "Gold"
      [] symbol = "XAG" -> "Silver"
      [] symbol = "XPT" -> "Platinum"
      [] symbol = "XPD" -> "Palladium"

\* round(1.0 / rate, 2) in cents, the rate in millionths: the nearest integer
\* to 10^8 / n, a tie going to the even one.
InvertRate(n) ==
    LET q == 100000000 \div n
        r == 100000000 % n
    IN IF 2 * r > n \/ (2 * r = n /\ q % 2 = 1) THEN q + 1 ELSE q

\* Mutant of invert_rates: a zero rate gives a zero price.
invert_rates_keeps_zero(rates_dict) ==
    [symbol \in DOMAIN rates_dict |->
        IF rates_dict[symbol] = 0 THEN 0 ELSE InvertRate(rates_dict[symbol])]

\* invert_rates: a zero rate is dropped.
invert_rates(rates_dict) ==
    [symbol \in {x \in DOMAIN rates_dict : rates_dict[x] # 0} |->
        InvertRate(rates_dict[symbol])]

\* transform_latest_to_seed, and the inner loop of transform_to_seed_format:
\* the seed entries of one date, in the order of SYMBOLS.
transform_latest_to_seed(rates, date) ==
    LET inverted == invert_rates(rates)
        present == SelectSeq(SYMBOLS, LAMBDA x : x \in DOMAIN inverted)
    IN [i \in 1..Len(present) |->
           Rec(<<date[1], date[2], SEED_HOUR, 0>>, SYMBOL_TO_METAL(present[i]),
               inverted[present[i]], "seed")]

-----------------------------------------------------------------------------
(* Merge logic: merge_into_year_files *)

\* The years of by_year, ascending (sorted(by_year.items())).
RECURSIVE SortedSeq(_)
SortedSeq(S) ==
    IF S = {} THEN <<>>
    ELSE LET m == CHOOSE x \in S : \A y \in S : x <= y
         IN <<m>> \o SortedSeq(S \ {m})

\* by_year[year]: the new entries of one year, in input order.
EntriesOfYear(new_entries, year) ==
    SelectSeq(new_entries, LAMBDA e : YearOf(e.timestamp) = year)

YearsOf(new_entries) ==
    {YearOf(new_entries[i].timestamp) : i \in DOMAIN new_entries}

\* The index of the entry of lookup d with key k, 0 if there is none.  A dict
\* is the sequence of its values in insertion order, keys distinct.
LookupIndex(d, k) ==
    IF \E i \in DOMAIN d : KeyOf(d[i]) = k
    THEN CHOOSE i \in DOMAIN d : KeyOf(d[i]) = k
    ELSE 0

\* {(e["timestamp"], e["metal"]): e for e in entries}: a later entry with the
\* same key takes the value, the key keeps its first position.
RECURSIVE BuildLookup(_)
BuildLookup(entries) ==
    IF entries = <<>> THEN <<>>
    ELSE LET n == Len(entries)
             d == BuildLookup(SubSeq(entries, 1, n - 1))
             e == entries[n]
             i == LookupIndex(d, KeyOf(e))
         IN IF i = 0 THEN Append(d, e) ELSE [d EXCEPT ![i] = e]

RemoveAt(s, i) == SubSeq(s, 1, i - 1) \o SubSeq(s, i + 1, Len(s))

\* [new_keys.pop(key(e), e) for e in existing], and what is left of new_keys.
RECURSIVE ReplaceWalk(_, _)
ReplaceWalk(existing, new_keys) ==
    IF existing = <<>> THEN [merged |-> <<>>, remaining |-> new_keys]
    ELSE LET e == Head(existing)
             i == LookupIndex(new_keys, KeyOf(e))
             rest == ReplaceWalk(Tail(existing),
                                 IF i = 0 THEN new_keys ELSE RemoveAt(new_keys, i))
         IN [merged |-> <<IF i = 0 THEN e ELSE new_keys[i]>> \o rest.merged,
             remaining |-> rest.remaining]

\* x put into the sorted s behind every element that is not greater than x.
InsertSorted(s, x) ==
    LET p == Cardinality({i \in DOMAIN s : ~KeyLess(x, s[i])})
    IN SubSeq(s, 1, p) \o <<x>> \o SubSeq(s, p + 1, Len(s))

\* Mutant of SortEntries: the merged list is persisted as it was put together.
SortEntriesSkipped(s) == s

\* merged.sort(key=lambda e: (e["timestamp"], e["metal"])): list.sort is stable.
RECURSIVE SortEntries(_)
SortEntries(s) ==
    IF s = <<>> THEN <<>>
    ELSE InsertSorted(SortEntries(SubSeq(s, 1, Len(s) - 1)), s[Len(s)])

\* The overwrite branch for one year.
ReplacingMerge(existing, entries) ==
    LET w == ReplaceWalk(existing, BuildLookup(entries))
    IN [write |-> TRUE,
        merged |-> w.merged \o w.remaining,
        count |-> Len(entries)]

\* Mutant of ToAdd: the new entries are not filtered against the existing keys.
ToAddUnfiltered(existing, entries) == entries

\* to_add of the additive branch: the entries whose key no existing record has.
ToAdd(existing, entries) ==
    LET existing_keys == {KeyOf(existing[i]) : i \in DOMAIN existing}
    IN SelectSeq(entries, LAMBDA e : KeyOf(e) \notin existing_keys)

\* Mutant of AdditiveMerge: the additive branch substitutes matching records.
AdditiveMergeReplaces(existing, entries) == ReplacingMerge(existing, entries)

\* Mutant of AdditiveMerge: a year with nothing to add is re-saved all the same.
AdditiveMergeAlwaysSaves(existing, entries) ==
    LET to_add == ToAdd(existing, entries)
    IN [write |-> TRUE, merged |-> existing \o to_add, count |-> Len(to_add)]

\* The additive branch for one year: nothing to add skips the year.
AdditiveMerge(existing, entries) ==
    LET to_add == ToAdd(existing, entries)
    IN IF to_add = <<>>
       THEN [write |-> FALSE, merged |-> existing, count |-> 0]
       ELSE [write |-> TRUE, merged |-> existing \o to_add, count |-> Len(to_add)]

\* Mutant of MergeYear: the merged list is saved in a dry run too.
MergeYearSavesInDryRun(existing, entries, dry_run, overwrite) ==
    LET m == IF overwrite THEN ReplacingMerge(existing, entries)
             ELSE AdditiveMerge(existing, entries)
    IN [save |-> m.write,
        merged |-> IF m.write THEN SortEntries(m.merged) ELSE existing,
        count |-> m.count]

\* The body of the loop over the years: merge, sort, and whether the file is saved.
MergeYear(existing, entries, dry_run, overwrite) ==
    LET m == IF overwrite THEN ReplacingMerge(existing, entries)
             ELSE AdditiveMerge(existing, entries)
    IN [save |-> m.write /\ ~dry_run,
        merged |-> IF m.write THEN SortEntries(m.merged) ELSE existing,
        count |-> m.count]

\* The loop over the years ys, from the files and results so far.
RECURSIVE MergeLoop(_, _, _, _, _)
MergeLoop(acc, ys, new_entries, dry_run, overwrite) ==
    IF ys = <<>> THEN acc
    ELSE LET year == Head(ys)
             m == MergeYear(load_year_file(acc.files, year),
                            EntriesOfYear(new_entries, year), dry_run, overwrite)
         IN MergeLoop(
              [files |-> IF m.save THEN save_year_file(acc.files, year, m.merged)
                         ELSE acc.files,
               results |-> (year :> m.count) @@ acc.results,
               saved |-> IF m.save THEN acc.saved \cup {year} ELSE acc.saved],
              Tail(ys), new_entries, dry_run, overwrite)

\* merge_into_year_files: the files afterwards, the returned {year: count} and
\* the years save_year_file was called for.
merge_into_year_files(files, new_entries, dry_run, overwrite) ==
    MergeLoop([files |-> files, results |-> <<>>, saved |-> {}],
              SortedSeq(YearsOf(new_entries)), new_entries, dry_run, overwrite)

-----------------------------------------------------------------------------
(* The poller: write_hourly, poll_once, backfill_recent_hours *)

\* noon EST = 17:00 UTC
NOON_HOUR == 17

NoRates == [x \in {} |-> 0]

\* What a request gave: an exception (ok false), or the "rates" of the response.
Failed == [ok |-> FALSE, rates |-> NoRates]
Fetched(rates) == [ok |-> TRUE, rates |-> rates]

Retag(entries, source) ==
    [i \in DOMAIN entries |-> [entries[i] EXCEPT !.source = source]]

Restamp(entries, ts) ==
    [i \in DOMAIN entries |-> [entries[i] EXCEPT !.timestamp = ts]]

\* Mutant of write_hourly: the cell is written without overwrite.
write_hourly_once(files, entries, date, hour) ==
    save_hourly_file(files, Retag(entries, "hourly"), date, hour, FALSE)

\* write_hourly: copies re-tagged "hourly", saved with overwrite=True.
write_hourly(files, entries, date, hour) ==
    save_hourly_file(files, Retag(entries, "hourly"), date, hour, TRUE)

\* {e["timestamp"][:10] for e in year_data}
DatesIn(year_data) == {DateOf(year_data[i].timestamp) : i \in DOMAIN year_data}

PollSkipped(Y, H, M) ==
    [yearFiles |-> Y, hourlyFiles |-> H, min15Files |-> M, events |-> <<>>,
     entries |-> <<>>, hourly_entries |-> <<>>, written_15min |-> FALSE,
     seed_results |-> <<>>, seed_saved |-> {}]

\* Mutant of poll_once: the seed is merged at every poll at or past the noon
\* hour, whether or not the archive holds today's date.
poll_once_seeds_again(Y, H, M, t, fetched) ==
    LET today == DateOf(t)
        hour == t[3]
        minute == t[4]
        entries == transform_latest_to_seed(fetched.rates, today)
        hourly_entries == Restamp(entries, <<today[1], today[2], hour, minute>>)
        h == write_hourly(H, hourly_entries, today, hour)
        m == save_15min_file(M, hourly_entries, today, hour, minute)
        seed_due == hour >= NOON_HOUR
        mg == merge_into_year_files(Y, entries, FALSE, FALSE)
    IN IF ~fetched.ok \/ DOMAIN fetched.rates = {} \/ entries = <<>>
       THEN PollSkipped(Y, H, M)
       ELSE [yearFiles |-> IF seed_due THEN mg.files ELSE Y,
             hourlyFiles |-> h.files,
             min15Files |-> m.files,
             events |-> <<"write_hourly", "save_15min_file">>
                        \o (IF seed_due THEN <<"merge_into_year_files">> ELSE <<>>),
             entries |-> entries,
             hourly_entries |-> hourly_entries,
             written_15min |-> m.written,
             seed_results |-> IF seed_due THEN mg.results ELSE <<>>,
             seed_saved |-> IF seed_due THEN mg.saved ELSE {}]

\* poll_once at time t on the files Y, H, M, the /latest request giving fetched.
poll_once(Y, H, M, t, fetched) ==
    LET today == DateOf(t)
        hour == t[3]
        minute == t[4]
        entries == transform_latest_to_seed(fetched.rates, today)
        hourly_entries == Restamp(entries, <<today[1], today[2], hour, minute>>)
        h == write_hourly(H, hourly_entries, today, hour)
        m == save_15min_file(M, hourly_entries, today, hour, minute)
        seed_due == /\ hour >= NOON_HOUR
                    /\ today \notin DatesIn(load_year_file(Y, today[1]))
        mg == merge_into_year_files(Y, entries, FALSE, FALSE)
    IN IF ~fetched.ok \/ DOMAIN fetched.rates = {} \/ entries = <<>>
       THEN PollSkipped(Y, H, M)
       ELSE [yearFiles |-> IF seed_due THEN mg.files ELSE Y,
             hourlyFiles |-> h.files,
             min15Files |-> m.files,
             events |-> <<"write_hourly", "save_15min_file">>
                        \o (IF seed_due THEN <<"merge_into_year_files">> ELSE <<>>),
             entries |-> entries,
             hourly_entries |-> hourly_entries,
             written_15min |-> m.written,
             seed_results |-> IF seed_due THEN mg.results ELSE <<>>,
             seed_saved |-> IF seed_due THEN mg.saved ELSE {}]

\* The calendar of datetime: days in a year.
DaysInYear(y) ==
    IF y % 4 = 0 /\ (y % 100 # 0 \/ y % 400 = 0) THEN 366 ELSE 365

PrevDay(date) ==
    IF date[2] > 1 THEN <<date[1], date[2] - 1>>
    ELSE <<date[1] - 1, DaysInYear(date[1] - 1)>>

RECURSIVE DaysBefore(_, _)
DaysBefore(date, k) == IF k = 0 THEN date ELSE DaysBefore(PrevDay(date), k - 1)

\* (now - timedelta(hours=h)): its date and its hour.
HoursBefore(t, h) ==
    LET back == IF h <= t[3] THEN 0 ELSE (h - t[3] + 23) \div 24
        date == DaysBefore(DateOf(t), back)
    IN <<date[1], date[2], (t[3] - h) % 24>>

DateLess(a, b) == a[1] < b[1] \/ (a[1] = b[1] /\ a[2] < b[2])

\* Mutant of MissingHours: the scan starts at the hour in progress.
MissingHoursFromNow(H, t, hours_back) ==
    LET targets == [h \in 1..hours_back |-> HoursBefore(t, h - 1)]
    IN SelectSeq(targets, LAMBDA c : c \notin DOMAIN H)

\* The scan: the cells of the hours now-1 .. now-hours_back that have no file,
\* in that order.
MissingHours(H, t, hours_back) ==
    LET targets == [h \in 1..hours_back |-> HoursBefore(t, h)]
    IN SelectSeq(targets, LAMBDA c : c \notin DOMAIN H)

\* The hourly entries the backfill builds for one missing cell.
BackfillEntries(rates, cell) ==
    LET inverted == invert_rates(rates)
        present == SelectSeq(SYMBOLS, LAMBDA x : x \in DOMAIN inverted)
    IN [i \in 1..Len(present) |->
           Rec(<<cell[1], cell[2], cell[3], 0>>, SYMBOL_TO_METAL(present[i]),
               inverted[present[i]], "hourly")]

\* The loop over the missing cells: nothing is written for a date without
\* rates or a cell without entries; a cell written counts as filled.
RECURSIVE BackfillLoop(_, _, _)
BackfillLoop(acc, missing, rates_by_date) ==
    IF missing = <<>> THEN acc
    ELSE LET cell == Head(missing)
             date == <<cell[1], cell[2]>>
             entries == IF date \in DOMAIN rates_by_date
                        THEN BackfillEntries(rates_by_date[date], cell)
                        ELSE <<>>
             w == save_hourly_file(acc.files, entries, date, cell[3], FALSE)
         IN IF entries = <<>>
            THEN BackfillLoop(acc, Tail(missing), rates_by_date)
            ELSE IF w.written
            THEN BackfillLoop([files |-> w.files, filled |-> acc.filled \cup {cell}],
                              Tail(missing), rates_by_date)
            ELSE BackfillLoop([files |-> w.files, filled |-> acc.filled],
                              Tail(missing), rates_by_date)

\* Mutant of backfill_recent_hours: one request for each missing hour.
backfill_recent_hours_per_hour(H, t, hours_back, fetched) ==
    LET missing == MissingHours(H, t, hours_back)
        done == BackfillLoop([files |-> H, filled |-> {}], missing, fetched.rates)
        each == [i \in DOMAIN missing |->
                    <<<<missing[i][1], missing[i][2]>>, <<missing[i][1], missing[i][2]>>>>]
    IN IF ~fetched.ok
       THEN [hourlyFiles |-> H, missing |-> missing, requests |-> each,
             filled |-> {}]
       ELSE [hourlyFiles |-> done.files, missing |-> missing, requests |-> each,
             filled |-> done.filled]

\* backfill_recent_hours at time t: the hourly files afterwards, the cells
\* found missing, the /timeframe requests issued (their date ranges) and the
\* cells filled.  fetched.rates maps a date to its rates.
backfill_recent_hours(H, t, hours_back, fetched) ==
    LET missing == MissingHours(H, t, hours_back)
        dates_needed == {<<missing[i][1], missing[i][2]>> : i \in DOMAIN missing}
        start_date == CHOOSE d \in dates_needed :
                          \A e \in dates_needed : ~DateLess(e, d)
        end_date == CHOOSE d \in dates_needed :
                          \A e \in dates_needed : ~DateLess(d, e)
        done == BackfillLoop([files |-> H, filled |-> {}], missing, fetched.rates)
    IN IF missing = <<>>
       THEN [hourlyFiles |-> H, missing |-> missing, requests |-> <<>>,
             filled |-> {}]
       ELSE IF ~fetched.ok
       THEN [hourlyFiles |-> H, missing |-> missing,
             requests |-> <<<<start_date, end_date>>>>, filled |-> {}]
       ELSE [hourlyFiles |-> done.files, missing |-> missing,
             requests |-> <<<<start_date, end_date>>>>, filled |-> done.filled]

-----------------------------------------------------------------------------
(* The library as its callers see it: one action per call.  A call runs to   *)
(* completion (single-threaded, synchronous); the caller then holds the      *)
(* result until it goes on.                                                  *)

NoCall == [op |-> "none"]

\* No entry point is running.
NoProc == [prog |-> "none"]

Snapshot == [yearFiles |-> yearFiles, hourlyFiles |-> hourlyFiles,
             min15Files |-> min15Files]

NoFiles == [x \in {} |-> <<>>]

\* Inputs of the merge: seed-shaped records of two years.  In 2025 two
\* metals share a timestamp, in an order that differs from the transform's
\* canonical order, and Gold has a later timestamp; one key comes with two
\* different spots.
MergeKeys ==
    {<<<<2025, 1, SEED_HOUR, 0>>, "Silver">>,
     <<<<2025, 1, SEED_HOUR, 0>>, "Platinum">>,
     <<<<2025, 2, SEED_HOUR, 0>>, "Gold">>,
     <<<<2026, 1, SEED_HOUR, 0>>, "Gold">>}
SpotsOf(k) == IF k[2] = "Silver" THEN {100, 200} ELSE {100}
MergeRecords ==
    UNION {{Rec(k[1], k[2], s, "seed") : s \in SpotsOf(k)} : k \in MergeKeys}
SeqsUpTo(S, n) == UNION {[1..k -> S] : k \in 0..n}
MergeInputs == SeqsUpTo(MergeRecords, MaxLen)

Init ==
    /\ yearFiles = NoFiles
    /\ hourlyFiles = NoFiles
    /\ min15Files = NoFiles
    /\ now = <<2025, 365, 16, 45>>
    /\ pc = "idle"
    /\ call = NoCall
    /\ pre = Snapshot
    /\ nStoreCalls = 0
    /\ proc = NoProc

\* A call of merge_into_year_files(data_dir, new_entries, dry_run, overwrite).
MergeIntoYearFiles(new_entries, dry_run, overwrite) ==
    /\ pc = "idle"
    /\ \E r \in {merge_into_year_files(yearFiles, new_entries, dry_run, overwrite)} :
          /\ yearFiles' = r.files
          /\ call' = [op |-> "merge_into_year_files", new_entries |-> new_entries,
                      dry_run |-> dry_run, overwrite |-> overwrite,
                      results |-> r.results, saved |-> r.saved]
    /\ pre' = Snapshot
    /\ pc' = "returned"
    /\ UNCHANGED <<hourlyFiles, min15Files, now, nStoreCalls, proc>>

\* The caller goes on after a call has returned.
Return ==
    /\ pc = "returned"
    /\ pc' = "idle"
    /\ call' = NoCall
    /\ pre' = Snapshot
    /\ UNCHANGED <<yearFiles, hourlyFiles, min15Files, now, nStoreCalls, proc>>

MergeCall ==
    \E new_entries \in MergeInputs, dry_run \in BOOLEAN, overwrite \in BOOLEAN :
        MergeIntoYearFiles(new_entries, dry_run, overwrite)

NextMerge == MergeCall \/ Return

SpecMerge == Init /\ [][NextMerge]_vars

-----------------------------------------------------------------------------
(* The poller and the two snapshot layers *)

\* The times the clock is read at: before the noon hour, at it and a quarter
\* later on the last day of 2025, and the first hour of 2026.
ClockInstants ==
    {<<2025, 365, 16, 45>>, <<2025, 365, 17, 0>>, <<2025, 365, 17, 15>>,
     <<2026, 1, 0, 0>>}

\* Responses of the rates source.
RatesA == ("XAU" :> 500) @@ ("XAG" :> 12500)
RatesB == ("XAU" :> 400) @@ ("XAG" :> 0) @@ ("XPT" :> 1000)
RatesZero == ("XAU" :> 0)
LatestOutcomes ==
    {Failed, Fetched(NoRates), Fetched(RatesZero), Fetched(RatesA), Fetched(RatesB)}
TimeframeOutcomes(t) ==
    {Failed, Fetched(NoRates), Fetched(DateOf(t) :> RatesA),
     Fetched((DateOf(t) :> RatesB) @@ (PrevDay(DateOf(t)) :> RatesA))}
HoursBackInputs == {2, 24}

\* Lists handed to the cell writers directly.
StoreEntries(t) ==
    {<<>>, <<Rec(t, "Gold", 100, "hourly")>>,
     <<Rec(t, "Gold", 200, "hourly"), Rec(t, "Silver", 100, "hourly")>>}

\* Time passes.
Tick ==
    /\ pc = "idle"
    /\ \E t \in ClockInstants : TsLess(now, t) /\ now' = t
    /\ UNCHANGED <<yearFiles, hourlyFiles, min15Files, pc, call, pre, nStoreCalls, proc>>

\* A call of poll_once(api_key, data_dir).
PollOnce(fetched) ==
    /\ pc = "idle"
    /\ nStoreCalls < MaxStoreCalls
    /\ \E r \in {poll_once(yearFiles, hourlyFiles, min15Files, now, fetched)} :
          /\ yearFiles' = r.yearFiles
          /\ hourlyFiles' = r.hourlyFiles
          /\ min15Files' = r.min15Files
          /\ call' = [op |-> "poll_once", at |-> now, fetched |-> fetched,
                      events |-> r.events, entries |-> r.entries,
                      hourly_entries |-> r.hourly_entries,
                      written_15min |-> r.written_15min,
                      seed_results |-> r.seed_results, seed_saved |-> r.seed_saved]
    /\ pre' = Snapshot
    /\ pc' = "returned"
    /\ nStoreCalls' = nStoreCalls + 1
    /\ UNCHANGED <<now, proc>>

\* A call of backfill_recent_hours(api_key, data_dir, hours_back).
BackfillRecentHours(hours_back, fetched) ==
    /\ pc = "idle"
    /\ nStoreCalls < MaxStoreCalls
    /\ \E r \in {backfill_recent_hours(hourlyFiles, now, hours_back, fetched)} :
          /\ hourlyFiles' = r.hourlyFiles
          /\ call' = [op |-> "backfill_recent_hours", at |-> now,
                      hours_back |-> hours_back, fetched |-> fetched,
                      missing |-> r.missing, requests |-> r.requests,
                      filled |-> r.filled]
    /\ pre' = Snapshot
    /\ pc' = "returned"
    /\ nStoreCalls' = nStoreCalls + 1
    /\ UNCHANGED <<yearFiles, min15Files, now, proc>>

\* A call of save_hourly_file(data_dir, entries, date_obj, hour_str, overwrite).
SaveHourlyFile(entries, date, hour, overwrite) ==
    /\ pc = "idle"
    /\ nStoreCalls < MaxStoreCalls
    /\ \E r \in {save_hourly_file(hourlyFiles, entries, date, hour, overwrite)} :
          /\ hourlyFiles' = r.files
          /\ call' = [op |-> "save_hourly_file", entries |-> entries,
                      path |-> <<date[1], date[2], hour>>,
                      overwrite |-> overwrite, written |-> r.written]
    /\ pre' = Snapshot
    /\ pc' = "returned"
    /\ nStoreCalls' = nStoreCalls + 1
    /\ UNCHANGED <<yearFiles, min15Files, now, proc>>

\* A call of save_15min_file(data_dir, entries, date_obj, hour_str, minute_str).
Save15minFile(entries, date, hour, minute) ==
    /\ pc = "idle"
    /\ nStoreCalls < MaxStoreCalls
    /\ \E r \in {save_15min_file(min15Files, entries, date, hour, minute)} :
          /\ min15Files' = r.files
          /\ call' = [op |-> "save_15min_file", entries |-> entries,
                      path |-> <<date[1], date[2], hour, minute>>,
                      written |-> r.written]
    /\ pre' = Snapshot
    /\ pc' = "returned"
    /\ nStoreCalls' = nStoreCalls + 1
    /\ UNCHANGED <<yearFiles, hourlyFiles, now, proc>>

PollCall == \E fetched \in LatestOutcomes : PollOnce(fetched)

BackfillCall ==
    \E hours_back \in HoursBackInputs, fetched \in TimeframeOutcomes(now) :
        BackfillRecentHours(hours_back, fetched)

SaveHourlyCall ==
    \E entries \in StoreEntries(now), overwrite \in BOOLEAN :
        SaveHourlyFile(entries, DateOf(now), now[3], overwrite)

Save15minCall ==
    \E entries \in StoreEntries(now) :
        Save15minFile(entries, DateOf(now), now[3], now[4])

NextStore ==
    Tick \/ PollCall \/ BackfillCall \/ SaveHourlyCall \/ Save15minCall \/ Return

SpecStore == Init /\ [][NextStore]_vars

Next == MergeCall \/ NextStore

Spec == Init /\ [][Next]_vars

-----------------------------------------------------------------------------
(* Properties of the merge engine *)

MergeReturned == pc = "returned" /\ call.op = "merge_into_year_files"
AdditiveReturned == MergeReturned /\ ~call.overwrite /\ ~call.dry_run
ReplacingReturned == MergeReturned /\ call.overwrite /\ ~call.dry_run

KeysOf(s) == {KeyOf(s[i]) : i \in DOMAIN s}
Range(s) == {s[i] : i \in DOMAIN s}
Count(s, r) == Cardinality({i \in DOMAIN s : s[i] = r})
KeyCount(s, k) == Cardinality({i \in DOMAIN s : KeyOf(s[i]) = k})
Before(year) == load_year_file(pre.yearFiles, year)
After(year) == load_year_file(yearFiles, year)

\* Every arrangement of the list s.
Arrangements(s) ==
    {[i \in DOMAIN s |-> s[f[i]]] : f \in Permutations(DOMAIN s)}

\* C1: after any sequence of merges, additive or replacing, no yearly archive
\* holds two records with the same (timestamp, metal) key.
C1_NoDuplicateKeys ==
    \A y \in DOMAIN yearFiles :
        \A i, j \in DOMAIN yearFiles[y] :
            i # j => KeyOf(yearFiles[y][i]) # KeyOf(yearFiles[y][j])

\* C2: additive merge is idempotent: once an additive merge has run, running
\* it again with the same records reports 0 added for every year of the input,
\* saves no file and leaves every yearly archive as it is.
C2_AdditiveIdempotent ==
    AdditiveReturned =>
        LET again == merge_into_year_files(yearFiles, call.new_entries, FALSE, FALSE)
        IN /\ DOMAIN again.results = YearsOf(call.new_entries)
           /\ \A y \in DOMAIN again.results : again.results[y] = 0
           /\ again.saved = {}
           /\ again.files = yearFiles

\* An additive merge that found all of its records already in the archive,
\* as the second of two runs with the same records does.
C2_Witness ==
    /\ AdditiveReturned
    /\ call.new_entries # <<>>
    /\ \A i \in DOMAIN call.new_entries :
           call.new_entries[i] \in Range(After(YearOf(call.new_entries[i].timestamp)))
    /\ \A y \in DOMAIN call.results : call.results[y] = 0
    /\ yearFiles = pre.yearFiles

\* C3: every yearly archive is sorted ascending by (timestamp, metal), the
\* metal names compared as strings.
C3_Sorted ==
    \A y \in DOMAIN yearFiles :
        \A i \in 1..(Len(yearFiles[y]) - 1) :
            ~KeyLess(yearFiles[y][i + 1], yearFiles[y][i])

\* A merge saved a year whose new records came in descending key order, and
\* the archive holds Platinum before Silver at one timestamp.
C3_Witness ==
    /\ MergeReturned
    /\ \E i \in DOMAIN call.new_entries :
          /\ i + 1 \in DOMAIN call.new_entries
          /\ KeyLess(call.new_entries[i + 1], call.new_entries[i])
          /\ YearOf(call.new_entries[i].timestamp) \in call.saved
          /\ YearOf(call.new_entries[i + 1].timestamp) \in call.saved
    /\ \E y \in DOMAIN yearFiles : \E i, j \in DOMAIN yearFiles[y] :
          /\ i < j
          /\ yearFiles[y][i].timestamp = yearFiles[y][j].timestamp
          /\ yearFiles[y][i].metal = "Platinum"
          /\ yearFiles[y][j].metal = "Silver"

\* C4: the outcome of a merge does not depend on the order of the new
\* records: every arrangement of them, merged into the same archive in the
\* same mode, yields the same files and the same counts.
C4_OrderIndependent ==
    MergeReturned =>
        \A p \in Arrangements(call.new_entries) :
            LET other == merge_into_year_files(pre.yearFiles, p,
                                               call.dry_run, call.overwrite)
            IN other.files = yearFiles /\ other.results = call.results

\* C5: after a replacing merge every key of the input has exactly one record
\* in the archive, carrying a spot of the input; a key that was in the archive
\* has no more records than before; the records of other keys are kept.
C5_ReplacingCorrect ==
    ReplacingReturned =>
        \A y \in YearsOf(call.new_entries) :
            LET input == EntriesOfYear(call.new_entries, y)
                OtherKeys(s) == SelectSeq(s, LAMBDA e : KeyOf(e) \notin KeysOf(input))
            IN /\ \A k \in KeysOf(input) :
                      /\ KeyCount(After(y), k) = 1
                      /\ \A j \in DOMAIN After(y) :
                             KeyOf(After(y)[j]) = k => After(y)[j] \in Range(input)
               /\ \A k \in KeysOf(Before(y)) :
                      KeyCount(After(y), k) <= KeyCount(Before(y), k)
               /\ OtherKeys(After(y)) = OtherKeys(Before(y))

\* C9: an additive merge keeps every record that was in an archive, field
\* for field, and every record it adds has a key the archive did not hold.
C9_AdditiveFrame ==
    AdditiveReturned =>
        \A y \in DOMAIN pre.yearFiles \cup DOMAIN yearFiles :
            /\ \A r \in Range(Before(y)) : Count(After(y), r) >= Count(Before(y), r)
            /\ \A r \in Range(After(y)) :
                   Count(After(y), r) > Count(Before(y), r)
                       => KeyOf(r) \notin KeysOf(Before(y))
            /\ y \notin YearsOf(call.new_entries) => After(y) = Before(y)

\* An additive merge added a record to an archive and passed over a record
\* whose key the archive held with another spot.
C9_Witness ==
    /\ AdditiveReturned
    /\ \E y \in DOMAIN call.results :
          /\ call.results[y] > 0
          /\ \E i \in DOMAIN call.new_entries :
                /\ KeyOf(call.new_entries[i]) \in KeysOf(Before(y))
                /\ call.new_entries[i] \notin Range(Before(y))

\* C10: in additive mode a year whose new records all have keys the archive
\* holds is reported with 0 added and its file is not saved.
AllKeysPresent(y) ==
    KeysOf(EntriesOfYear(call.new_entries, y)) \subseteq KeysOf(Before(y))

C10_NothingNewNoWrite ==
    (MergeReturned /\ ~call.overwrite) =>
        \A y \in YearsOf(call.new_entries) :
            AllKeysPresent(y) =>
                /\ call.results[y] = 0
                /\ y \notin call.saved
                /\ After(y) = Before(y)
                /\ (y \in DOMAIN yearFiles) = (y \in DOMAIN pre.yearFiles)

\* One additive merge saved one year and skipped another that had nothing new.
C10_Witness ==
    /\ AdditiveReturned
    /\ call.saved # {}
    /\ \E y \in YearsOf(call.new_entries) : AllKeysPresent(y) /\ y \notin call.saved

-----------------------------------------------------------------------------
(* Properties of the hourly and the 15-minute layer *)

PollReturned == pc = "returned" /\ call.op = "poll_once"
\* The poll got usable rates and went on to its writes.
PollWrote == PollReturned /\ call.events # <<>>
HourlyCellOf(t) == <<t[1], t[2], t[3]>>
SaveHourlyReturned == pc = "returned" /\ call.op = "save_hourly_file"
Save15minReturned == pc = "returned" /\ call.op = "save_15min_file"
BackfillReturned == pc = "returned" /\ call.op = "backfill_recent_hours"

\* C6: a 15-minute cell is write-once: whatever is called, a cell that exists
\* keeps its content, and a write to an existing cell (a direct one or a
\* poll's) reports that nothing was written.
C6_15minWriteOnce ==
    pc = "returned" =>
        /\ \A p \in DOMAIN pre.min15Files :
               p \in DOMAIN min15Files /\ min15Files[p] = pre.min15Files[p]
        /\ (Save15minReturned /\ call.path \in DOMAIN pre.min15Files)
               => ~call.written
        /\ (PollWrote /\ call.at \in DOMAIN pre.min15Files)
               => ~call.written_15min

\* A poll found the 15-minute cell of its minute written with other data.
C6_Witness ==
    /\ PollWrote
    /\ call.at \in DOMAIN pre.min15Files
    /\ pre.min15Files[call.at] # call.hourly_entries

\* C7 as stated: after a second write to an hourly cell, by save_hourly_file
\* or by a poll, the cell holds the data of that write.
C7_SecondWriteWins ==
    /\ (SaveHourlyReturned /\ call.path \in DOMAIN pre.hourlyFiles)
           => hourlyFiles[call.path] = call.entries
    /\ (PollWrote /\ HourlyCellOf(call.at) \in DOMAIN pre.hourlyFiles)
           => hourlyFiles[HourlyCellOf(call.at)] = Retag(call.hourly_entries, "hourly")

\* C7 amended: after a second write to an hourly cell made with overwrite
\* true, which is how every poll writes, the cell holds the data of that write.
C7_OverwritingWriteWins ==
    /\ (SaveHourlyReturned /\ call.overwrite /\ call.path \in DOMAIN pre.hourlyFiles)
           => hourlyFiles[call.path] = call.entries
    /\ (PollWrote /\ HourlyCellOf(call.at) \in DOMAIN pre.hourlyFiles)
           => hourlyFiles[HourlyCellOf(call.at)] = Retag(call.hourly_entries, "hourly")

\* A poll wrote the hourly cell that an earlier write had left with other data.
C7_Witness ==
    /\ PollWrote
    /\ HourlyCellOf(call.at) \in DOMAIN pre.hourlyFiles
    /\ pre.hourlyFiles[HourlyCellOf(call.at)] # Retag(call.hourly_entries, "hourly")

\* C8: save_hourly_file on an existing cell with overwrite false returns false
\* and changes nothing; in every other case it returns true and the cell holds
\* the given records, the other cells as before.  The backfill of missing
\* hours leaves every cell that existed as it was.
C8_HourlyHonoursOverwrite ==
    /\ SaveHourlyReturned =>
          IF call.path \in DOMAIN pre.hourlyFiles /\ ~call.overwrite
          THEN ~call.written /\ hourlyFiles = pre.hourlyFiles
          ELSE /\ call.written
               /\ DOMAIN hourlyFiles = DOMAIN pre.hourlyFiles \cup {call.path}
               /\ hourlyFiles[call.path] = call.entries
               /\ \A p \in DOMAIN pre.hourlyFiles \ {call.path} :
                      hourlyFiles[p] = pre.hourlyFiles[p]
    /\ BackfillReturned =>
          \A p \in DOMAIN pre.hourlyFiles :
              p \in DOMAIN hourlyFiles /\ hourlyFiles[p] = pre.hourlyFiles[p]

\* save_hourly_file was called without overwrite on a cell holding other data.
C8_Witness ==
    /\ SaveHourlyReturned
    /\ ~call.overwrite
    /\ call.path \in DOMAIN pre.hourlyFiles
    /\ pre.hourlyFiles[call.path] # call.entries

\* The backfill filled a missing hour next to an hour that had its cell.
C8_BackfillCase ==
    /\ BackfillReturned
    /\ call.filled # {}
    /\ \E i \in 1..call.hours_back :
           HoursBefore(call.at, i) \in DOMAIN pre.hourlyFiles

-----------------------------------------------------------------------------
(* Dry run *)

\* C11: a merge with dry_run leaves every yearly archive as it was, an absent
\* one absent, in additive and in replacing mode, and returns the per-year
\* counts a real merge of the same entries from the same archives returns.
C11_DryRunNoEffect ==
    (MergeReturned /\ call.dry_run) =>
        /\ yearFiles = pre.yearFiles
        /\ call.saved = {}
        /\ call.results =
               merge_into_year_files(pre.yearFiles, call.new_entries, FALSE,
                                     call.overwrite).results

\* A dry run reported records to add to an archive that does not exist and to
\* one that does, where the real merge would have written.
C11_Witness ==
    /\ MergeReturned
    /\ call.dry_run
    /\ \E y \in DOMAIN call.results :
          call.results[y] > 0 /\ y \notin DOMAIN pre.yearFiles
    /\ \E y \in DOMAIN call.results :
          call.results[y] > 0 /\ y \in DOMAIN pre.yearFiles
    /\ merge_into_year_files(pre.yearFiles, call.new_entries, FALSE,
                             call.overwrite).files # pre.yearFiles

-----------------------------------------------------------------------------
(* The daily seed write of a poll *)

ClockDays == {DateOf(t) : t \in ClockInstants}

\* The poller alone: polls at the passing instants, whether made by one
\* process or by a process started anew (a poll keeps nothing between calls).
NextPoll == Tick \/ PollCall \/ Return

SpecPoll == Init /\ [][NextPoll]_vars

\* The poll's hour is at or past 17 UTC and the archive of the poll's year
\* held no record of the poll's day.
SeedDue ==
    /\ call.at[3] >= 17
    /\ DateOf(call.at) \notin DatesIn(load_year_file(pre.yearFiles, call.at[1]))

\* A poll that got entries merges them additively into the archives exactly
\* when the seed is due, and the archives are as they were otherwise.
C12_SeedCondition ==
    PollReturned =>
        /\ (yearFiles # pre.yearFiles) = (PollWrote /\ SeedDue)
        /\ ("merge_into_year_files" \in Range(call.events)) = (PollWrote /\ SeedDue)
        /\ yearFiles =
               IF PollWrote /\ SeedDue
               THEN merge_into_year_files(pre.yearFiles, call.entries, FALSE, FALSE).files
               ELSE pre.yearFiles

\* A poll of the day d has just written seed records to the archive.
SeedWrittenBy(d) ==
    PollReturned /\ DateOf(call.at) = d /\ yearFiles # pre.yearFiles

-----------------------------------------------------------------------------
(* Gap detection: find_latest_date *)

MaxArchiveLen == 2  \* records per archive file the scan is checked on

\* None
NoDate == <<>>

\* What a "timestamp" field of an archive file can hold besides a well-formed
\* stamp <<year, day, hour, minute>>: a string that is no stamp (here the empty
\* string, which is also what entry.get gives for a record without the field,
\* and a stamp with a day its year does not have), or a value that is no
\* string at all (JSON null).
EmptyTs == <<>>
NullTs == <<0>>

\* datetime.strptime(ts, "%Y-%m-%d %H:%M:%S"): the date, or the exception.
strptime(ts) ==
    IF ts = NullTs THEN [outcome |-> "TypeError", date |-> NoDate]
    ELSE IF /\ Len(ts) = 4
            /\ ts[1] \in 1..9999
            /\ ts[2] \in 1..DaysInYear(ts[1])
            /\ ts[3] \in 0..23
            /\ ts[4] \in 0..59
    THEN [outcome |-> "ok", date |-> <<ts[1], ts[2]>>]
    ELSE [outcome |-> "ValueError", date |-> NoDate]

\* The loop over the entries of one file: a ValueError skips the entry, any
\* other exception leaves the function.
RECURSIVE ScanEntries(_, _)
ScanEntries(acc, entries) ==
    IF acc.raised \/ entries = <<>> THEN acc
    ELSE LET p == strptime(Head(entries).timestamp)
         IN IF p.outcome = "TypeError"
            THEN [raised |-> TRUE, latest |-> acc.latest]
            ELSE IF p.outcome = "ValueError"
            THEN ScanEntries(acc, Tail(entries))
            ELSE IF acc.latest = NoDate \/ DateLess(acc.latest, p.date)
            THEN ScanEntries([raised |-> FALSE, latest |-> p.date], Tail(entries))
            ELSE ScanEntries(acc, Tail(entries))

\* The loop over sorted(glob("spot-history-*.json")).
RECURSIVE ScanFiles(_, _, _)
ScanFiles(acc, paths, files) ==
    IF acc.raised \/ paths = <<>> THEN acc
    ELSE ScanFiles(ScanEntries(acc, files[Head(paths)]), Tail(paths), files)

\* find_latest_date: the latest date, NoDate for None, or that it raised.
find_latest_date(files) ==
    ScanFiles([raised |-> FALSE, latest |-> NoDate], SortedSeq(DOMAIN files), files)

\* Archive files as the scan may find them, written by this program or not.
RawStamps ==
    {<<2026, 41, SEED_HOUR, 0>>, <<2025, 365, SEED_HOUR, 0>>,
     <<2026, 400, SEED_HOUR, 0>>, EmptyTs, NullTs}
RawRecords == {Rec(ts, "Gold", 100, "seed") : ts \in RawStamps}
FoundArchives ==
    UNION {[Y -> SeqsUpTo(RawRecords, MaxArchiveLen)] : Y \in SUBSET {2025, 2026}}

InitLatest ==
    /\ yearFiles \in FoundArchives
    /\ hourlyFiles = NoFiles
    /\ min15Files = NoFiles
    /\ now = <<2026, 42, 9, 0>>
    /\ pc = "idle"
    /\ call = NoCall
    /\ pre = [yearFiles |-> yearFiles, hourlyFiles |-> NoFiles,
              min15Files |-> NoFiles]
    /\ nStoreCalls = 0
    /\ proc = NoProc

\* A call of find_latest_date(data_dir).
FindLatestDate ==
    /\ pc = "idle"
    /\ \E r \in {find_latest_date(yearFiles)} :
          call' = [op |-> "find_latest_date", raised |-> r.raised,
                   latest |-> r.latest]
    /\ pre' = Snapshot
    /\ pc' = "returned"
    /\ UNCHANGED <<yearFiles, hourlyFiles, min15Files, now, nStoreCalls, proc>>

NextLatest == FindLatestDate \/ Return

SpecLatest == InitLatest /\ [][NextLatest]_vars

FindLatestReturned == pc = "returned" /\ call.op = "find_latest_date"

\* The dates of the records of all archive files whose stamp is well-formed.
ParsedDates ==
    UNION {{strptime(yearFiles[y][i].timestamp).date : i \in DOMAIN yearFiles[y]} :
               y \in DOMAIN yearFiles} \ {NoDate}

\* C17: find_latest_date returns the greatest date over the records of all
\* archive files, passing over every record whose timestamp does not parse
\* without failing, and None when no file exists or no record parses.
C17_LatestDate ==
    FindLatestReturned =>
        /\ ~call.raised
        /\ IF ParsedDates = {} THEN call.latest = NoDate
           ELSE /\ call.latest \in ParsedDates
                /\ \A d \in ParsedDates : ~DateLess(call.latest, d)

-----------------------------------------------------------------------------
(* The scan for missing hours *)

\* The days of the years from 2024 up to the year y, y excluded.
RECURSIVE DaysUpTo(_)
DaysUpTo(y) == IF y <= 2024 THEN 0 ELSE DaysUpTo(y - 1) + DaysInYear(y - 1)

\* Dates and hours counted from the start of 2024.
DayOrdinal(date) == DaysUpTo(date[1]) + date[2]
HourOrdinal(cell) == DayOrdinal(cell) * 24 + cell[3]

\* The hourly cells of the days around the instants the clock is read at.
HourCells ==
    {<<date[1], date[2], h>> :
        date \in {<<2025, 364>>, <<2025, 365>>, <<2026, 1>>}, h \in 0..23}

\* The hours now-N .. now-1 of a scan made at t.
TrailingWindow(t, N) ==
    LET current == HourOrdinal(t)
    IN {c \in HourCells :
           current - N <= HourOrdinal(c) /\ HourOrdinal(c) <= current - 1}

\* C18: the scan over a trailing window of N hours reports exactly the hours
\* from now-N to now-1 that have no hourly snapshot, each once; the hour in
\* progress is not among them whether it has a snapshot or not.
C18_MissingHoursExact ==
    BackfillReturned =>
        LET window == TrailingWindow(call.at, call.hours_back)
        IN /\ Range(call.missing) = {c \in window : c \notin DOMAIN pre.hourlyFiles}
           /\ Cardinality(Range(call.missing)) = Len(call.missing)
           /\ Cardinality(window) = call.hours_back
           /\ HourlyCellOf(call.at) \notin Range(call.missing)

\* A scan found hours missing next to an hour that had its snapshot, in a
\* window reaching into the day before, while the hour in progress had none.
C18_Witness ==
    /\ BackfillReturned
    /\ HourlyCellOf(call.at) \notin DOMAIN pre.hourlyFiles
    /\ call.missing # <<>>
    /\ \E c \in TrailingWindow(call.at, call.hours_back) :
           c \in DOMAIN pre.hourlyFiles
    /\ \E i \in DOMAIN call.missing : call.missing[i][2] # call.at[2]

-----------------------------------------------------------------------------
(* The rate transform as its callers see it *)

MaxItems == 4  \* symbols in one rates object

\* sorted(rates_by_date.items()): the dates ascending.
RECURSIVE SortedDates(_)
SortedDates(S) ==
    IF S = {} THEN <<>>
    ELSE LET m == CHOOSE x \in S : \A y \in S : ~DateLess(y, x)
         IN <<m>> \o SortedDates(S \ {m})

RECURSIVE TransformDates(_, _)
TransformDates(dates, rates_by_date) ==
    IF dates = <<>> THEN <<>>
    ELSE transform_latest_to_seed(rates_by_date[Head(dates)], Head(dates))
             \o TransformDates(Tail(dates), rates_by_date)

\* transform_to_seed_format: the entries of every date, the dates ascending.
transform_to_seed_format(rates_by_date) ==
    TransformDates(SortedDates(DOMAIN rates_by_date), rates_by_date)

\* A "rates" object of a response as it is read: <<symbol, rate>> pairs in
\* document order, the symbols distinct; "USD" is a symbol that is no metal.
RateItems == (Range(SYMBOLS) \cup {"USD"}) \X {0, 500}
RateObjects ==
    {items \in SeqsUpTo(RateItems, MaxItems) :
        \A i, j \in DOMAIN items : i # j => items[i][1] # items[j][1]}

\* The dict json.load makes of the object.
DictOf(items) ==
    [symbol \in {items[i][1] : i \in DOMAIN items} |->
        items[CHOOSE i \in DOMAIN items : items[i][1] = symbol][2]]

TransformDays == {<<2025, 365>>, <<2026, 1>>}

\* A call of transform_latest_to_seed(rates, date_str).
TransformLatestToSeed(items, date) ==
    /\ pc = "idle"
    /\ call' = [op |-> "transform_latest_to_seed", items |-> items,
                dates |-> <<date>>,
                result |-> transform_latest_to_seed(DictOf(items), date)]
    /\ pre' = Snapshot
    /\ pc' = "returned"
    /\ UNCHANGED <<yearFiles, hourlyFiles, min15Files, now, nStoreCalls, proc>>

\* A call of transform_to_seed_format(rates_by_date), every date of the
\* response with the same rates object.
TransformToSeedFormat(items, days) ==
    /\ pc = "idle"
    /\ call' = [op |-> "transform_to_seed_format", items |-> items,
                dates |-> SortedDates(days),
                result |-> transform_to_seed_format([d \in days |-> DictOf(items)])]
    /\ pre' = Snapshot
    /\ pc' = "returned"
    /\ UNCHANGED <<yearFiles, hourlyFiles, min15Files, now, nStoreCalls, proc>>

TransformLatestCall ==
    /\ pc = "idle"
    /\ \E items \in RateObjects, date \in TransformDays :
          TransformLatestToSeed(items, date)

TransformFormatCall ==
    /\ pc = "idle"
    /\ \E items \in RateObjects, days \in SUBSET TransformDays :
          TransformToSeedFormat(items, days)

NextTransform == TransformLatestCall \/ TransformFormatCall \/ Return

SpecTransform == Init /\ [][NextTransform]_vars

TransformReturned ==
    pc = "returned" /\ call.op \in {"transform_latest_to_seed", "transform_to_seed_format"}

\* The metals the claim expects for a rates object, in the canonical order.
MetalSymbol(metal) ==
    CASE metal = "Gold" -> "XAU"
      [] metal = "Silver" -> "XAG"
      [] metal = "Platinum" -> "XPT"
      [] metal = "Palladium" -> "XPD"

ExpectedMetals(items) ==
    SelectSeq(<<"Gold", "Silver", "Platinum", "Palladium">>,
              LAMBDA m : \E i \in DOMAIN items :
                             items[i][1] = MetalSymbol(m) /\ items[i][2] # 0)

-----------------------------------------------------------------------------
(* The entry points: configuration and the chunked range fetch *)

MAX_DAYS_PER_REQUEST == 365

\* date + timedelta(days=k), k >= 0.
RECURSIVE AddDays(_, _)
AddDays(date, k) ==
    IF date[2] + k <= DaysInYear(date[1]) THEN <<date[1], date[2] + k>>
    ELSE AddDays(<<date[1] + 1, 1>>, k - (DaysInYear(date[1]) - date[2] + 1))

DateMin(a, b) == IF DateLess(b, a) THEN b ELSE a

\* The environment of a process: METAL_PRICE_API_KEY as exported, as the .env
\* file beside the script has it ("none": no such file), and whether the data
\* directory exists.
Env(key, dotenv, data_dir) == [key |-> key, dotenv |-> dotenv, data_dir |-> data_dir]

Envs ==
    {Env("set", "none", TRUE), Env("set", "none", FALSE),
     Env("unset", "none", TRUE), Env("unset", "none", FALSE),
     Env("unset", "set", TRUE), Env("unset", "placeholder", TRUE),
     Env("placeholder", "none", TRUE), Env("placeholder", "set", TRUE)}

\* load_config: whether it returns a key (it exits with status 1 otherwise).
\* load_dotenv does not replace a variable that is exported already.
load_config(env) ==
    IF env.key = "set" THEN TRUE
    ELSE IF env.dotenv = "none" THEN FALSE
    ELSE (IF env.key = "unset" THEN env.dotenv ELSE env.key) = "set"

\* One pass of the chunk loop of a range fetch from chunk_start up to end.
chunk_end(chunk_start, end) ==
    DateMin(AddDays(chunk_start, MAX_DAYS_PER_REQUEST - 1), end)

Request(start, end) == [start |-> start, end |-> end]

\* Mutant of NextChunkStart: the next chunk starts on the day the last ended.
NextChunkStartOverlaps(chunk_start, end) == chunk_end(chunk_start, end)

\* chunk_start = chunk_end + timedelta(days=1)
NextChunkStart(chunk_start, end) == AddDays(chunk_end(chunk_start, end), 1)

\* What /timeframe gave for a chunk: an exception, no rates, or the rates of
\* the first day, or of the first and the last day, of the chunk.
ChunkOutcomes(chunk_start, end) ==
    {Failed, Fetched(NoRates), Fetched(chunk_start :> RatesA),
     Fetched((chunk_end(chunk_start, end) :> RatesB) @@ (chunk_start :> RatesA))}

\* The files a process finds: none where the data directory does not exist.
NoFilesExist == yearFiles = NoFiles /\ hourlyFiles = NoFiles /\ min15Files = NoFiles

\* No entry point has been started yet.
MayStart(env) ==
    /\ pc = "idle"
    /\ proc.prog = "none"
    /\ env.data_dir \/ NoFilesExist

\* The locals of an entry point as it starts, at position at.
Started(prog, env, once, dry_run, at, status) ==
    [prog |-> prog, env |-> env, once |-> once, dry_run |-> dry_run,
     at |-> at, status |-> status,
     start |-> NoDate, end |-> NoDate, chunk_start |-> NoDate,
     all_entries |-> <<>>, requests |-> <<>>, network |-> FALSE,
     failed |-> FALSE, merged |-> FALSE, last_poll |-> "none",
     hours_missing |-> 0, hour_requests |-> <<>>,
     files0 |-> Snapshot]

\* sys.exit(status), a return from main, or an exception that leaves main.
Exited(p, status) == [p EXCEPT !.at = "exited", !.status = status]

\* The range of a fetch: from start up to end, the first chunk next.
WithRange(p, start, end) ==
    [p EXCEPT !.start = start, !.end = end, !.chunk_start = start]

\* One pass of the chunk loop: the request is issued; an exception ends the
\* loop, rates are transformed and appended and the next chunk is set.
ChunkStep(p, fetched) ==
    LET issued == [p EXCEPT !.network = TRUE,
                            !.requests = Append(@, Request(p.chunk_start,
                                                   chunk_end(p.chunk_start, p.end)))]
    IN IF ~fetched.ok THEN [issued EXCEPT !.failed = TRUE]
       ELSE [issued EXCEPT
                !.all_entries = @ \o transform_to_seed_format(fetched.rates),
                !.chunk_start = NextChunkStart(p.chunk_start, p.end)]

\* while chunk_start <= end
InChunkLoop(p) == ~DateLess(p.end, p.chunk_start)

-----------------------------------------------------------------------------
(* The backfill tool: main of update-seed-data.py *)

ToolStartDates ==
    {NoDate, <<2025, 365>>, <<2025, 1>>, <<2024, 366>>, <<2024, 1>>, <<2026, 2>>}
ToolEndDates == {NoDate, <<2025, 364>>}

\* main up to the chunk loop: load_config, resolve_data_dir, the date range.
ToolStart(env, dry_run, start_date, end_date) ==
    /\ MayStart(env)
    /\ LET p == Started("tool", env, FALSE, dry_run, "chunk", 0)
           latest == find_latest_date(yearFiles)
           end == IF end_date # NoDate THEN end_date ELSE DateOf(now)
       IN proc' =
            IF ~load_config(env) THEN Exited(p, 1)
            ELSE IF start_date # NoDate
            THEN (IF DateLess(end, start_date) THEN Exited(p, 0)
                  ELSE WithRange(p, start_date, end))
            ELSE IF latest.raised \/ latest.latest = NoDate THEN Exited(p, 1)
            ELSE IF DateLess(end, AddDays(latest.latest, 1)) THEN Exited(p, 0)
            ELSE WithRange(p, AddDays(latest.latest, 1), end)
    /\ UNCHANGED <<yearFiles, hourlyFiles, min15Files, now, pc, call, pre,
                   nStoreCalls>>

\* Mutant of ToolChunk: after a failed request main goes on to the merge.
ToolChunkGoesOn(fetched) ==
    /\ proc.prog = "tool"
    /\ proc.at = "chunk"
    /\ LET p == ChunkStep(proc, fetched)
       IN proc' = IF p.failed THEN [p EXCEPT !.at = "merge"]
                  ELSE IF InChunkLoop(p) THEN p
                  ELSE [p EXCEPT !.at = "merge"]
    /\ UNCHANGED <<yearFiles, hourlyFiles, min15Files, now, pc, call, pre,
                   nStoreCalls>>

\* One pass of the chunk loop of main; a failed request exits with status 1.
ToolChunk(fetched) ==
    /\ proc.prog = "tool"
    /\ proc.at = "chunk"
    /\ LET p == ChunkStep(proc, fetched)
       IN proc' = IF p.failed THEN Exited(p, 1)
                  ELSE IF InChunkLoop(p) THEN p
                  ELSE [p EXCEPT !.at = "merge"]
    /\ UNCHANGED <<yearFiles, hourlyFiles, min15Files, now, pc, call, pre,
                   nStoreCalls>>

\* main after the loop: nothing fetched exits with status 0; the merge, which
\* fails at its first save where the data directory does not exist.
ToolMerge ==
    /\ proc.prog = "tool"
    /\ proc.at = "merge"
    /\ \E r \in {merge_into_year_files(yearFiles, proc.all_entries,
                                       proc.dry_run, FALSE)} :
          IF proc.all_entries = <<>>
          THEN proc' = Exited(proc, 0) /\ UNCHANGED yearFiles
          ELSE IF ~proc.env.data_dir /\ r.saved # {}
          THEN /\ proc' = Exited([proc EXCEPT !.merged = TRUE], 1)
               /\ UNCHANGED yearFiles
          ELSE /\ proc' = Exited([proc EXCEPT !.merged = TRUE], 0)
               /\ yearFiles' = r.files
    /\ UNCHANGED <<hourlyFiles, min15Files, now, pc, call, pre, nStoreCalls>>

ToolStartCall ==
    /\ proc.prog = "none"
    /\ \E env \in Envs, dry_run \in BOOLEAN,
          start_date \in ToolStartDates, end_date \in ToolEndDates :
          ToolStart(env, dry_run, start_date, end_date)

ToolChunkCall ==
    /\ proc.prog = "tool"
    /\ proc.at = "chunk"
    /\ \E fetched \in ChunkOutcomes(proc.chunk_start, proc.end) : ToolChunk(fetched)

-----------------------------------------------------------------------------
(* The poller: main of poller.py, run_catchup and the polling loop *)

\* main up to the branch on --once: load_config, resolve_data_dir and the
\* test that the data directory exists.
PollerStart(env, once) ==
    /\ MayStart(env)
    /\ LET p == Started("poller", env, once, FALSE,
                        IF once THEN "backfill_recent_hours" ELSE "run_catchup", 0)
       IN proc' = IF ~load_config(env) \/ ~env.data_dir THEN Exited(p, 1) ELSE p
    /\ UNCHANGED <<yearFiles, hourlyFiles, min15Files, now, pc, call, pre,
                   nStoreCalls>>

\* --once: backfill_recent_hours(api_key, data_dir) with its default window.
PollerBackfillHours(fetched) ==
    /\ proc.prog = "poller"
    /\ proc.at = "backfill_recent_hours"
    /\ \E r \in {backfill_recent_hours(hourlyFiles, now, 24, fetched)} :
          /\ hourlyFiles' = r.hourlyFiles
          /\ proc' = [proc EXCEPT !.at = "poll_once",
                                  !.network = @ \/ r.requests # <<>>,
                                  !.hours_missing = Len(r.missing),
                                  !.hour_requests = r.requests]
    /\ UNCHANGED <<yearFiles, min15Files, now, pc, call, pre, nStoreCalls>>

\* What a poll cycle came to.
PollResult(fetched, r) ==
    IF ~fetched.ok THEN "failed"
    ELSE IF r.events = <<>> THEN "skipped"
    ELSE "wrote"

\* --once: the single poll, and the return from main.
PollerPollOnce(fetched) ==
    /\ proc.prog = "poller"
    /\ proc.at = "poll_once"
    /\ \E r \in {poll_once(yearFiles, hourlyFiles, min15Files, now, fetched)} :
          /\ yearFiles' = r.yearFiles
          /\ hourlyFiles' = r.hourlyFiles
          /\ min15Files' = r.min15Files
          /\ proc' = Exited([proc EXCEPT !.network = TRUE,
                                         !.last_poll = PollResult(fetched, r)], 0)
    /\ UNCHANGED <<now, pc, call, pre, nStoreCalls>>

\* run_catchup up to its chunk loop: no seed data, or none missing up to
\* yesterday, returns at once.
CatchupBegin ==
    /\ proc.prog = "poller"
    /\ proc.at = "run_catchup"
    /\ LET latest == find_latest_date(yearFiles)
           yesterday == PrevDay(DateOf(now))
       IN proc' =
            IF latest.raised THEN Exited(proc, 1)
            ELSE IF latest.latest = NoDate THEN [proc EXCEPT !.at = "poll"]
            ELSE IF DateLess(yesterday, AddDays(latest.latest, 1))
            THEN [proc EXCEPT !.at = "poll"]
            ELSE [WithRange(proc, AddDays(latest.latest, 1), yesterday)
                     EXCEPT !.at = "catchup_chunk"]
    /\ UNCHANGED <<yearFiles, hourlyFiles, min15Files, now, pc, call, pre,
                   nStoreCalls>>

\* One pass of the chunk loop of run_catchup; a failed request returns.
CatchupChunk(fetched) ==
    /\ proc.prog = "poller"
    /\ proc.at = "catchup_chunk"
    /\ LET p == ChunkStep(proc, fetched)
       IN proc' = IF p.failed THEN [p EXCEPT !.at = "poll"]
                  ELSE IF InChunkLoop(p) THEN p
                  ELSE [p EXCEPT !.at = "catchup_merge"]
    /\ UNCHANGED <<yearFiles, hourlyFiles, min15Files, now, pc, call, pre,
                   nStoreCalls>>

\* run_catchup after the loop: the merge of what was fetched, if anything.
CatchupMerge ==
    /\ proc.prog = "poller"
    /\ proc.at = "catchup_merge"
    /\ \E r \in {merge_into_year_files(yearFiles, proc.all_entries, FALSE, FALSE)} :
          IF proc.all_entries = <<>>
          THEN proc' = [proc EXCEPT !.at = "poll"] /\ UNCHANGED yearFiles
          ELSE /\ proc' = [proc EXCEPT !.at = "poll", !.merged = TRUE]
               /\ yearFiles' = r.files
    /\ UNCHANGED <<hourlyFiles, min15Files, now, pc, call, pre, nStoreCalls>>

\* Mutant of LoopPoll: an exception of the request leaves the loop.
LoopPollFatal(fetched) ==
    /\ proc.prog = "poller"
    /\ proc.at = "poll"
    /\ \E r \in {poll_once(yearFiles, hourlyFiles, min15Files, now, fetched)} :
          /\ yearFiles' = r.yearFiles
          /\ hourlyFiles' = r.hourlyFiles
          /\ min15Files' = r.min15Files
          /\ proc' = IF fetched.ok
                     THEN [proc EXCEPT !.at = "sleep", !.network = TRUE,
                                       !.last_poll = PollResult(fetched, r)]
                     ELSE Exited([proc EXCEPT !.network = TRUE,
                                              !.last_poll = "failed"], 1)
    /\ UNCHANGED <<now, pc, call, pre, nStoreCalls>>

\* The loop's poll_once(api_key, data_dir): it returns whatever the request
\* came to, and the loop goes on to its sleep.
LoopPoll(fetched) ==
    /\ proc.prog = "poller"
    /\ proc.at = "poll"
    /\ \E r \in {poll_once(yearFiles, hourlyFiles, min15Files, now, fetched)} :
          /\ yearFiles' = r.yearFiles
          /\ hourlyFiles' = r.hourlyFiles
          /\ min15Files' = r.min15Files
          /\ proc' = [proc EXCEPT !.at = "sleep", !.network = TRUE,
                                  !.last_poll = PollResult(fetched, r)]
    /\ UNCHANGED <<now, pc, call, pre, nStoreCalls>>

\* time.sleep(POLL_INTERVAL_SECONDS): the clock has moved on when the loop
\* polls again (it stays at the last instant the model follows).
LoopSleep ==
    /\ proc.prog = "poller"
    /\ proc.at = "sleep"
    /\ IF \E t \in ClockInstants : TsLess(now, t)
       THEN \E t \in ClockInstants : TsLess(now, t) /\ now' = t
       ELSE now' = now
    /\ proc' = [proc EXCEPT !.at = "poll"]
    /\ UNCHANGED <<yearFiles, hourlyFiles, min15Files, pc, call, pre, nStoreCalls>>

PollerStartCall ==
    /\ proc.prog = "none"
    /\ \E env \in Envs, once \in BOOLEAN : PollerStart(env, once)

PollerBackfillHoursCall ==
    /\ proc.prog = "poller"
    /\ proc.at = "backfill_recent_hours"
    /\ \E fetched \in TimeframeOutcomes(now) : PollerBackfillHours(fetched)

PollerPollOnceCall == \E fetched \in LatestOutcomes : PollerPollOnce(fetched)

CatchupChunkCall ==
    /\ proc.prog = "poller"
    /\ proc.at = "catchup_chunk"
    /\ \E fetched \in ChunkOutcomes(proc.chunk_start, proc.end) :
          CatchupChunk(fetched)

LoopPollCall == \E fetched \in LatestOutcomes : LoopPoll(fetched)

\* The archives a process finds when it starts: none, one that ends two days
\* before the first instant, one that ends a year and a day before that.
ArchivesAtStart ==
    {NoFiles,
     2025 :> <<Rec(<<2025, 363, SEED_HOUR, 0>>, "Gold", 100, "seed")>>,
     2024 :> <<Rec(<<2024, 364, SEED_HOUR, 0>>, "Gold", 100, "seed")>>}

InitProc ==
    /\ yearFiles \in ArchivesAtStart
    /\ hourlyFiles = NoFiles
    /\ min15Files = NoFiles
    /\ now = <<2025, 365, 16, 45>>
    /\ pc = "idle"
    /\ call = NoCall
    /\ pre = [yearFiles |-> yearFiles, hourlyFiles |-> NoFiles,
              min15Files |-> NoFiles]
    /\ nStoreCalls = 0
    /\ proc = NoProc

NextTool == ToolStartCall \/ ToolChunkCall \/ ToolMerge

NextPoller ==
    \/ PollerStartCall
    \/ PollerBackfillHoursCall
    \/ PollerPollOnceCall
    \/ CatchupBegin
    \/ CatchupChunkCall
    \/ CatchupMerge
    \/ LoopPollCall
    \/ LoopSleep

NextProc == Tick \/ NextTool \/ NextPoller

\* One run of either entry point.
SpecProc == InitProc /\ [][NextProc]_vars

\* One run of the poller; in its loop the process goes on whenever it can:
\* a poll cycle that is due is made, a sleep comes to its end.
SpecLoop ==
    InitProc /\ [][NextPoller]_vars /\ WF_vars(LoopPollCall) /\ WF_vars(LoopSleep)

-----------------------------------------------------------------------------
(* Properties of the entry points *)

Running == proc.prog # "none"
At == IF Running THEN proc.at ELSE "none"
InChunks == At \in {"chunk", "catchup_chunk"}
BeforeLoop == Running /\ proc.last_poll = "none"

\* C13: once a chunk request of a range fetch has failed, in the tool or in
\* the poller's catch-up, no merge is made and the archives stay as the
\* process found them, whatever earlier chunks gave; the tool has exited with
\* status 1.
C13_ChunkFailureAborts ==
    (Running /\ proc.failed) =>
        /\ ~proc.merged
        /\ ~InChunks /\ At # "merge" /\ At # "catchup_merge"
        /\ BeforeLoop => yearFiles = proc.files0.yearFiles
        /\ proc.prog = "tool" => At = "exited" /\ proc.status = 1

\* A later chunk failed after an earlier one had brought entries.
C13_Witness ==
    /\ Running
    /\ proc.failed
    /\ Len(proc.requests) >= 2
    /\ proc.all_entries # <<>>
    /\ ~proc.dry_run
    /\ BeforeLoop

\* The days of the range a process fetches, and of one request.
RangeDays == DayOrdinal(proc.end) - DayOrdinal(proc.start) + 1
SpanDays(request) == DayOrdinal(request.end) - DayOrdinal(request.start) + 1

\* The whole range was walked without a failed request.
ChunksDone ==
    /\ Running
    /\ proc.start # NoDate
    /\ ~proc.failed
    /\ ~InChunks

\* C16: the requests of a range fetch from start to end, start <= end, are
\* consecutive chunks of at most 365 days: the first starts at start, each
\* later one the day after the one before ended, none reaches past end; the
\* loop makes no more passes than the range has chunks, and when it is through
\* the last chunk ends at end.  A range of 366 days takes exactly two requests.
C16_ChunksCoverRange ==
    (Running /\ proc.start # NoDate) =>
        LET requests == proc.requests
            n == Len(requests)
            chunks == (RangeDays + 364) \div 365
        IN /\ RangeDays >= 1
           /\ n <= chunks
           /\ \A i \in 1..n :
                 /\ SpanDays(requests[i]) >= 1
                 /\ SpanDays(requests[i]) <= 365
                 /\ ~DateLess(proc.end, requests[i].end)
                 /\ DayOrdinal(requests[i].start) =
                        IF i = 1 THEN DayOrdinal(proc.start)
                        ELSE DayOrdinal(requests[i - 1].end) + 1
           /\ InChunks => n < chunks
           /\ ChunksDone => n = chunks /\ requests[n].end = proc.end
           /\ (ChunksDone /\ RangeDays = 366) => n = 2

\* A range of exactly one day more than a chunk holds was fetched, over the
\* end of a leap year.
C16_Witness ==
    /\ ChunksDone
    /\ RangeDays = 366
    /\ proc.start[1] = 2024
    /\ Len(proc.requests) = 2
    /\ proc.requests[2].start = proc.requests[2].end

\* No usable credential is exported or in the .env file.
CredentialMissing(env) == env.key # "set" /\ env.dotenv # "set"

ConfigurationError(env) == CredentialMissing(env) \/ ~env.data_dir

\* C20: an entry point started with a missing or placeholder credential, or
\* with a data directory that does not exist, issues no network request and
\* writes no archive, hourly or 15-minute file.
C20_ConfigErrorNoActivity ==
    (Running /\ ConfigurationError(proc.env)) =>
        /\ ~proc.network
        /\ Snapshot = proc.files0

\* The poller is in its polling loop.
InLoop == At \in {"poll", "sleep"}

\* C14: once the poller is in its polling loop it stays there: every poll
\* cycle, whatever its request came to, is followed by the sleep, and every
\* sleep by another poll cycle, so polls are made again and again.
C14_LoopNeverExits ==
    /\ [][InLoop => InLoop']_vars
    /\ (At = "poll") ~> (At = "sleep")
    /\ (At = "sleep") ~> (At = "poll")

\* The loop is about to poll again after a poll cycle whose request failed.
C14_Witness ==
    /\ At = "poll"
    /\ proc.last_poll = "failed"

-----------------------------------------------------------------------------
(* Crash and restart: a unit of work followed write by write *)

MaxCrashes == 2  \* crashes of one unit of work

\* What a file holds between open(path, "w"), which empties it, and the end
\* of json.dump: nothing, or the first part of the text; no JSON document.
TornFile == <<[torn |-> TRUE]>>

\* json.load of the file succeeds (a missing year file is not loaded).
Readable(files, path) == path \notin DOMAIN files \/ files[path] # TornFile

\* A unit of work with its fetched data: the merge of a backfill (kind
\* "merge"), or a poll cycle from its first write on (kind "poll").
Job(kind, entries, t) ==
    [prog |-> "job", kind |-> kind, entries |-> entries, t |-> t,
     at |-> IF kind = "merge" THEN "merge" ELSE "write_hourly",
     years |-> SortedSeq(YearsOf(entries)), pending |-> <<>>,
     crashes |-> 0, torn |-> FALSE,
     files0 |-> Snapshot, min15_at_crash |-> NoFiles]

\* The entries a backfill over the year's end brought, and those of a poll.
JobEntries ==
    {transform_to_seed_format((<<2025, 365>> :> RatesA) @@ (<<2026, 1>> :> RatesB)),
     transform_to_seed_format((<<2025, 364>> :> RatesB) @@ (<<2026, 1>> :> RatesA))}
PollInstants == {<<2025, 365, 16, 45>>, <<2025, 365, 17, 0>>}

StartMergeJob(entries) ==
    /\ pc = "idle"
    /\ proc.prog = "none"
    /\ proc' = Job("merge", entries, now)
    /\ UNCHANGED <<yearFiles, hourlyFiles, min15Files, now, pc, call, pre,
                   nStoreCalls>>

StartPollJob(rates, t) ==
    /\ pc = "idle"
    /\ proc.prog = "none"
    /\ proc' = Job("poll", transform_latest_to_seed(rates, DateOf(t)), t)
    /\ UNCHANGED <<yearFiles, hourlyFiles, min15Files, now, pc, call, pre,
                   nStoreCalls>>

JobHourlyEntries == Restamp(proc.entries, proc.t)
JobHourlyCell == <<proc.t[1], proc.t[2], proc.t[3]>>

\* write_hourly up to the open of save_hourly_file (overwrite=True).
JobOpenHourly ==
    /\ proc.prog = "job"
    /\ proc.at = "write_hourly"
    /\ hourlyFiles' = (JobHourlyCell :> TornFile) @@ hourlyFiles
    /\ proc' = [proc EXCEPT !.at = "save_hourly",
                            !.pending = Retag(JobHourlyEntries, "hourly")]
    /\ UNCHANGED <<yearFiles, min15Files, now, pc, call, pre, nStoreCalls>>

\* json.dump and close of save_hourly_file.
JobWriteHourly ==
    /\ proc.prog = "job"
    /\ proc.at = "save_hourly"
    /\ hourlyFiles' = (JobHourlyCell :> proc.pending) @@ hourlyFiles
    /\ proc' = [proc EXCEPT !.at = "write_15min", !.pending = <<>>]
    /\ UNCHANGED <<yearFiles, min15Files, now, pc, call, pre, nStoreCalls>>

\* save_15min_file up to its open: a path that exists returns False.
JobOpen15min ==
    /\ proc.prog = "job"
    /\ proc.at = "write_15min"
    /\ IF proc.t \in DOMAIN min15Files
       THEN /\ proc' = [proc EXCEPT !.at = "seed"]
            /\ UNCHANGED min15Files
       ELSE /\ min15Files' = (proc.t :> TornFile) @@ min15Files
            /\ proc' = [proc EXCEPT !.at = "save_15min",
                                    !.pending = JobHourlyEntries]
    /\ UNCHANGED <<yearFiles, hourlyFiles, now, pc, call, pre, nStoreCalls>>

\* json.dump and close of save_15min_file.
JobWrite15min ==
    /\ proc.prog = "job"
    /\ proc.at = "save_15min"
    /\ min15Files' = (proc.t :> proc.pending) @@ min15Files
    /\ proc' = [proc EXCEPT !.at = "seed", !.pending = <<>>]
    /\ UNCHANGED <<yearFiles, hourlyFiles, now, pc, call, pre, nStoreCalls>>

\* The seed test of poll_once: at or past the noon hour the year file is
\* loaded, which fails on a file that is no JSON document, and the entries
\* are merged if it holds no record of today.
JobSeedTest ==
    /\ proc.prog = "job"
    /\ proc.at = "seed"
    /\ proc' =
         IF proc.t[3] < NOON_HOUR THEN [proc EXCEPT !.at = "done"]
         ELSE IF ~Readable(yearFiles, proc.t[1]) THEN [proc EXCEPT !.at = "died"]
         ELSE IF DateOf(proc.t) \in DatesIn(load_year_file(yearFiles, proc.t[1]))
         THEN [proc EXCEPT !.at = "done"]
         ELSE [proc EXCEPT !.at = "merge"]
    /\ UNCHANGED <<yearFiles, hourlyFiles, min15Files, now, pc, call, pre,
                   nStoreCalls>>

\* One turn of the loop over the years of merge_into_year_files up to the
\* open of save_year_file: the year file is loaded (which fails on a file
\* that is no JSON document) and merged; a year with nothing to write is
\* passed over.
JobMergeYear ==
    /\ proc.prog = "job"
    /\ proc.at = "merge"
    /\ IF proc.years = <<>>
       THEN /\ proc' = [proc EXCEPT !.at = "done"]
            /\ UNCHANGED yearFiles
       ELSE IF ~Readable(yearFiles, Head(proc.years))
       THEN /\ proc' = [proc EXCEPT !.at = "died"]
            /\ UNCHANGED yearFiles
       ELSE \E m \in {MergeYear(load_year_file(yearFiles, Head(proc.years)),
                                EntriesOfYear(proc.entries, Head(proc.years)),
                                FALSE, FALSE)} :
              IF m.save
              THEN /\ yearFiles' = (Head(proc.years) :> TornFile) @@ yearFiles
                   /\ proc' = [proc EXCEPT !.at = "save_year",
                                           !.pending = m.merged]
              ELSE /\ proc' = [proc EXCEPT !.years = Tail(proc.years)]
                   /\ UNCHANGED yearFiles
    /\ UNCHANGED <<hourlyFiles, min15Files, now, pc, call, pre, nStoreCalls>>

\* json.dump and close of save_year_file.
JobWriteYear ==
    /\ proc.prog = "job"
    /\ proc.at = "save_year"
    /\ yearFiles' = save_year_file(yearFiles, Head(proc.years), proc.pending)
    /\ proc' = [proc EXCEPT !.at = "merge", !.pending = <<>>,
                            !.years = Tail(proc.years)]
    /\ UNCHANGED <<hourlyFiles, min15Files, now, pc, call, pre, nStoreCalls>>

WritePositions == {"save_hourly", "save_15min", "save_year"}

\* The process is killed where it stands; the files stay as they are.
Crash ==
    /\ proc.prog = "job"
    /\ proc.at \notin {"done", "died", "crashed"}
    /\ proc.crashes < MaxCrashes
    /\ proc' = [proc EXCEPT !.at = "crashed",
                            !.crashes = proc.crashes + 1,
                            !.torn = proc.torn \/ proc.at \in WritePositions,
                            !.min15_at_crash = min15Files @@ proc.min15_at_crash]
    /\ UNCHANGED <<yearFiles, hourlyFiles, min15Files, now, pc, call, pre,
                   nStoreCalls>>

\* The same unit of work is run again from its start with the same data.
Rerun ==
    /\ proc.prog = "job"
    /\ proc.at = "crashed"
    /\ proc' = [proc EXCEPT !.at = IF proc.kind = "merge" THEN "merge"
                                   ELSE "write_hourly",
                            !.years = SortedSeq(YearsOf(proc.entries)),
                            !.pending = <<>>]
    /\ UNCHANGED <<yearFiles, hourlyFiles, min15Files, now, pc, call, pre,
                   nStoreCalls>>

StartMergeJobCall == \E entries \in JobEntries : StartMergeJob(entries)
StartPollJobCall ==
    \E rates \in {RatesA, RatesB}, t \in PollInstants : StartPollJob(rates, t)

NextCrash ==
    \/ StartMergeJobCall
    \/ StartPollJobCall
    \/ JobOpenHourly
    \/ JobWriteHourly
    \/ JobOpen15min
    \/ JobWrite15min
    \/ JobSeedTest
    \/ JobMergeYear
    \/ JobWriteYear
    \/ Crash
    \/ Rerun

SpecCrash == InitProc /\ [][NextCrash]_vars

\* The yearly archives a single uninterrupted run of the unit of work leaves.
Uninterrupted ==
    IF proc.kind = "merge"
    THEN merge_into_year_files(proc.files0.yearFiles, proc.entries, FALSE, FALSE).files
    ELSE poll_once(proc.files0.yearFiles, proc.files0.hourlyFiles,
                   proc.files0.min15Files, proc.t,
                   Fetched(IF proc.entries = transform_latest_to_seed(RatesA, DateOf(proc.t))
                           THEN RatesA ELSE RatesB)).yearFiles

JobOver == proc.prog = "job" /\ proc.at \in {"done", "died"}

ArchivesSound ==
    \A y \in DOMAIN yearFiles :
        /\ yearFiles[y] # TornFile
        /\ \A i, j \in DOMAIN yearFiles[y] :
              i < j => /\ KeyOf(yearFiles[y][i]) # KeyOf(yearFiles[y][j])
                       /\ KeyLess(yearFiles[y][i], yearFiles[y][j])

\* C15: a backfill merge over several years, or a poll cycle, that was
\* interrupted at any point and run again with the same fetched data ends
\* with every yearly archive free of duplicate keys, sorted and equal to
\* what one uninterrupted run leaves, and with every 15-minute cell that
\* was there at the crash unchanged.
C15_RestartOnlyRedoes ==
    /\ (JobOver /\ proc.crashes >= 1) =>
          /\ proc.at = "done"
          /\ ArchivesSound
          /\ yearFiles = Uninterrupted
    /\ (proc.prog = "job" /\ proc.crashes >= 1 /\ proc.at # "crashed") =>
          \A c \in DOMAIN proc.min15_at_crash :
              /\ c \in DOMAIN min15Files
              /\ min15Files[c] = proc.min15_at_crash[c]

-----------------------------------------------------------------------------
(* The one-shot invocation: poller.py --once *)

\* The hourly tree a one-shot run finds: empty, every cell of the 24 hours
\* before the first instant there, or all of them but two.
HourlyAtStart ==
    LET window == TrailingWindow(<<2025, 365, 16, 45>>, 24)
        cell(c) == <<Rec(<<c[1], c[2], c[3], 0>>, "Gold", 100, "hourly")>>
    IN {NoFiles,
        [c \in window |-> cell(c)],
        [c \in window \ {<<2025, 364, 23>>, <<2025, 365, 3>>} |-> cell(c)]}

InitOnce ==
    /\ yearFiles \in ArchivesAtStart
    /\ hourlyFiles \in HourlyAtStart
    /\ min15Files = NoFiles
    /\ now = <<2025, 365, 16, 45>>
    /\ pc = "idle"
    /\ call = NoCall
    /\ pre = [yearFiles |-> yearFiles, hourlyFiles |-> hourlyFiles,
              min15Files |-> NoFiles]
    /\ nStoreCalls = 0
    /\ proc = NoProc

NextOnce ==
    \/ Tick
    \/ PollerStartCall
    \/ PollerBackfillHoursCall
    \/ PollerPollOnceCall

\* One run of the poller up to the end of its one-shot branch; a process
\* that can go on does.
SpecOnce ==
    /\ InitOnce
    /\ [][NextOnce]_vars
    /\ WF_vars(PollerBackfillHoursCall)
    /\ WF_vars(PollerPollOnceCall)

OneShot == Running /\ proc.prog = "poller" /\ proc.once
Backfilled == OneShot /\ At \in {"poll_once", "exited"} /\ proc.status = 0

\* C21: a one-shot invocation runs the backfill of missing hourly cells over
\* the trailing 24 hours before the poll; the backfill issues one range
\* request when cells are missing, however many, and none when none is; the
\* poll then runs and the process ends.
C21_OneShotBackfillThenPoll ==
    /\ [](Backfilled =>
            /\ Len(proc.hour_requests) <= 1
            /\ (proc.hours_missing = 0 <=> proc.hour_requests = <<>>)
            /\ (At = "poll_once" => proc.last_poll = "none"))
    /\ [][(OneShot /\ At = "backfill_recent_hours" /\ proc' # proc) =>
            /\ At' = "poll_once"
            /\ proc'.hours_missing =
                  Cardinality(TrailingWindow(now, 24) \ DOMAIN hourlyFiles)]_vars
    /\ [][(OneShot /\ At = "poll_once" /\ proc' # proc) =>
            (At' = "exited" /\ proc'.status = 0 /\ proc'.last_poll # "none")]_vars
    /\ (OneShot /\ At = "backfill_recent_hours") ~> (At = "exited")

C21_Witness ==
    /\ OneShot
    /\ At = "exited"
    /\ proc.hours_missing = 2
    /\ Len(proc.hour_requests) = 1
    /\ proc.last_poll = "wrote"

-----------------------------------------------------------------------------
(* The poll cycle step by step: fetch, hourly write, 15-minute write, seed *)

MaxCycles == 2  \* poll cycles of one behaviour

\* Mutant of CycleFetch: a response without usable rates is not skipped.
CycleFetchNoSkip(fetched) ==
    /\ proc.prog = "none"
    /\ nStoreCalls < MaxCycles
    /\ call' = [op |-> "fetch_latest", fetched |-> fetched]
    /\ proc' = IF ~fetched.ok
               THEN [Job("skipped", <<>>, now) EXCEPT !.at = "done"]
               ELSE Job("poll", transform_latest_to_seed(fetched.rates, DateOf(now)), now)
    /\ UNCHANGED <<yearFiles, hourlyFiles, min15Files, now, pc, pre, nStoreCalls>>

\* poll_once up to its first write: the clock is read, /latest is requested;
\* an exception, a response without rates, or one that gives no entries ends
\* the cycle there.
CycleFetch(fetched) ==
    /\ proc.prog = "none"
    /\ nStoreCalls < MaxCycles
    /\ call' = [op |-> "fetch_latest", fetched |-> fetched]
    /\ \E entries \in {transform_latest_to_seed(fetched.rates, DateOf(now))} :
          proc' = IF ~fetched.ok \/ DOMAIN fetched.rates = {} \/ entries = <<>>
                  THEN [Job("skipped", <<>>, now) EXCEPT !.at = "done"]
                  ELSE Job("poll", entries, now)
    /\ UNCHANGED <<yearFiles, hourlyFiles, min15Files, now, pc, pre, nStoreCalls>>

\* The return of poll_once and the sleep up to the next cycle.
CycleSleep ==
    /\ proc.prog = "job"
    /\ proc.at = "done"
    /\ proc' = NoProc
    /\ call' = NoCall
    /\ nStoreCalls' = nStoreCalls + 1
    /\ UNCHANGED <<yearFiles, hourlyFiles, min15Files, now, pc, pre>>

CycleFetchCall ==
    /\ proc.prog = "none"
    /\ \E fetched \in LatestOutcomes : CycleFetch(fetched)

NextCycle ==
    \/ Tick
    \/ CycleFetchCall
    \/ JobOpenHourly
    \/ JobWriteHourly
    \/ JobOpen15min
    \/ JobWrite15min
    \/ JobSeedTest
    \/ JobMergeYear
    \/ JobWriteYear
    \/ CycleSleep

SpecCycle == InitProc /\ [][NextCycle]_vars

InCycle == proc.prog = "job"

\* The response holds a rate that is not zero for one of the four symbols.
UsableRates(fetched) ==
    /\ fetched.ok
    /\ \E i \in DOMAIN SYMBOLS :
          /\ SYMBOLS[i] \in DOMAIN fetched.rates
          /\ fetched.rates[SYMBOLS[i]] # 0

\* The hourly cell of the cycle holds the records of the cycle, whole.
HourlyWritten ==
    /\ JobHourlyCell \in DOMAIN hourlyFiles
    /\ hourlyFiles[JobHourlyCell] # TornFile
    /\ hourlyFiles[JobHourlyCell] = Retag(JobHourlyEntries, "hourly")

\* The 15-minute cell of the cycle is there, whole.
Min15Written ==
    /\ proc.t \in DOMAIN min15Files
    /\ min15Files[proc.t] # TornFile

\* C22: a poll cycle whose /latest request fails or brings no usable rates
\* is skipped and leaves the hourly tree, the 15-minute tree and the yearly
\* archives as they were; in a cycle whose request succeeds the hourly cell
\* is written first, then the 15-minute cell, and the daily-seed test and
\* its write come last.
C22_SkipOrWriteInOrder ==
    /\ [](InCycle =>
            /\ (proc.kind = "skipped" <=> ~UsableRates(call.fetched))
            /\ (proc.kind = "skipped" =>
                  /\ proc.at = "done"
                  /\ Snapshot = proc.files0)
            /\ (proc.at \in {"seed", "merge", "save_year"} =>
                  HourlyWritten /\ Min15Written)
            /\ (proc.kind = "poll" /\ proc.at = "done" =>
                  HourlyWritten /\ Min15Written))
    /\ [][(InCycle /\ hourlyFiles' # hourlyFiles) =>
            /\ min15Files = proc.files0.min15Files
            /\ yearFiles = proc.files0.yearFiles]_vars
    /\ [][(InCycle /\ min15Files' # min15Files) =>
            /\ HourlyWritten
            /\ yearFiles = proc.files0.yearFiles]_vars
    /\ [][(InCycle /\ yearFiles' # yearFiles) =>
            HourlyWritten /\ Min15Written]_vars

C22_Witness ==
    /\ InCycle
    /\ proc.kind = "poll"
    /\ proc.at = "done"
    /\ nStoreCalls = 1
    /\ yearFiles # proc.files0.yearFiles
    /\ min15Files # proc.files0.min15Files
    /\ hourlyFiles # proc.files0.hourlyFiles

-----------------------------------------------------------------------------
(* Layer tagging *)

RecordsOf(files) == UNION {Range(files[p]) : p \in DOMAIN files}

SeedTagged(files) ==
    \A e \in RecordsOf(files) :
        e.source = "seed" /\ e.timestamp[3] = SEED_HOUR /\ e.timestamp[4] = 0

HourlyTagged(files) == \A e \in RecordsOf(files) : e.source = "hourly"

\* A poll has just written the 15-minute cell of its instant.
Wrote15min == now \notin DOMAIN min15Files /\ now \in DOMAIN min15Files'

\* C23: every record written to a yearly archive, by backfill, catch-up or
\* the daily-seed write of a poll, has source "seed" and the time 12:00:00;
\* every record written to an hourly or a 15-minute cell has source
\* "hourly"; the hourly cell and the 15-minute cell of one poll receive the
\* same records.
C23_LayerTagging ==
    /\ [](SeedTagged(yearFiles) /\ HourlyTagged(hourlyFiles)
            /\ HourlyTagged(min15Files))
    /\ [][Wrote15min =>
            min15Files'[now] = hourlyFiles'[<<now[1], now[2], now[3]>>]]_vars

-----------------------------------------------------------------------------
(* All-or-nothing writes *)

Whole(files) == \A p \in DOMAIN files : files[p] # TornFile

Interrupted == proc.prog = "job" /\ proc.at = "crashed"

\* C24: a write to a yearly archive, an hourly cell or a 15-minute cell that
\* is interrupted leaves the file with its complete old contents or its
\* complete new contents: after a crash no file of the three layers is
\* empty or cut short.
C24_WritesAllOrNothing ==
    Interrupted => Whole(yearFiles) /\ Whole(hourlyFiles) /\ Whole(min15Files)

====
